---- MODULE Spec2Model ----
(***************************************************************************)
(* A model of VideoMorph's two pieces of logic: the parser of ffprobe's    *)
(* key=value output (converter/probe.py) and the XML-backed store of       *)
(* conversion profiles (converter/profile.py).                             *)
(*                                                                         *)
(* Text is modelled as sequences of one-character strings, so that strip,  *)
(* split, substring search and the formatting of derived keys are computed *)
(* as the code computes them.                                              *)
(***************************************************************************)
EXTENDS Integers, Sequences, FiniteSets, TLC

VARIABLES
    probe_file,       \* probe.py: the lines of the probe's stdout
    selected_params,  \* probe.py: the selected_params argument of _parse_probe
    info,             \* probe.py: the dictionary _parse_probe returns
    format_info,      \* probe.py: Probe.format_info, as Video reads it
    valid,            \* video.py: the last result of Video.is_valid()
    user,             \* profile.py: the files of the user profiles directory
    constructed,      \* profile.py: an _XMLProfile object exists
    ret,              \* the last operation, its arguments and its outcome
    added,            \* preset names added by successful add_xml_profile calls
    adds,             \* the number of successful add_xml_profile calls
    profile,          \* profile.py: the fields of the Profile object
    gui               \* vmwidgets.py: the main window the delegate updates

vars == <<probe_file, selected_params, info, format_info, valid,
          user, constructed, ret, added, adds, profile, gui>>

probeVars == <<probe_file, selected_params, info, format_info, valid>>
storeVars == <<user, constructed, ret, added, adds, profile>>

----------------------------------------------------------------------------
(* Bounds *)

MaxLines == 3       \* the probe output has at most this many lines

----------------------------------------------------------------------------
(* Text helpers: Python's str operations on sequences of characters *)

Whitespace == {" ", "\n", "\t"}

RECURSIVE LStrip(_)
LStrip(s) ==
    IF s # <<>> /\ Head(s) \in Whitespace THEN LStrip(Tail(s)) ELSE s

RECURSIVE RStrip(_)
RStrip(s) ==
    IF s # <<>> /\ s[Len(s)] \in Whitespace
    THEN RStrip(SubSeq(s, 1, Len(s) - 1)) ELSE s

\* str.strip()
Strip(s) == RStrip(LStrip(s))

\* the `in` operator on strings: pat occurs in s as a substring
Contains(s, pat) ==
    \E i \in 1..(Len(s) - Len(pat) + 1) : SubSeq(s, i, i + Len(pat) - 1) = pat

\* str.split(sep) for a one-character separator: the list of the pieces
RECURSIVE Split(_, _)
Split(s, sep) ==
    IF \A i \in 1..Len(s) : s[i] # sep
    THEN <<s>>
    ELSE LET i == CHOOSE j \in 1..Len(s) :
                      s[j] = sep /\ \A k \in 1..(j - 1) : s[k] # sep
         IN  <<SubSeq(s, 1, i - 1)>> \o Split(SubSeq(s, i + 1, Len(s)), sep)

Digits == <<"0", "1", "2", "3", "4", "5", "6", "7", "8", "9">>

\* "{0}".format(n) for an integer n
RECURSIVE FormatInt(_)
FormatInt(n) ==
    IF n < 0 THEN <<"-">> \o FormatInt(0 - n)
    ELSE IF n < 10 THEN <<Digits[n + 1]>>
    ELSE FormatInt(n \div 10) \o <<Digits[(n % 10) + 1]>>

----------------------------------------------------------------------------
(* probe.py *)

STREAM == <<"[", "S", "T", "R", "E", "A", "M", "]">>

k_filename == <<"f", "i", "l", "e", "n", "a", "m", "e">>
k_nb_streams == <<"n", "b", "_", "s", "t", "r", "e", "a", "m", "s">>
k_format_name == <<"f", "o", "r", "m", "a", "t", "_", "n", "a", "m", "e">>
k_format_long_name ==
    <<"f", "o", "r", "m", "a", "t", "_", "l", "o", "n", "g", "_", "n", "a", "m", "e">>
k_duration == <<"d", "u", "r", "a", "t", "i", "o", "n">>
k_size == <<"s", "i", "z", "e">>
k_bit_rate == <<"b", "i", "t", "_", "r", "a", "t", "e">>
k_width == <<"w", "i", "d", "t", "h">>

\* selected_params of _parse_probe_format
FormatParams ==
    {k_filename, k_nb_streams, k_format_name, k_format_long_name,
     k_duration, k_size, k_bit_rate}

\* ParseLine with the test for an existing key left out: a later line of
\* the same key replaces the value of the first one.
ParseLine_overwrite(acc, raw, selected) ==
    LET format_line == Strip(raw)
        param == Split(format_line, "=")
        sc == IF Contains(format_line, STREAM)
              THEN acc.stream_count + 1 ELSE acc.stream_count
    IN  IF Contains(format_line, <<"=">>) /\ param[1] \in selected
        THEN [info |-> [k \in DOMAIN acc.info \cup {param[1]} |->
                           IF k = param[1] THEN param[2] ELSE acc.info[k]],
              stream_count |-> sc]
        ELSE [info |-> acc.info, stream_count |-> sc]

\* One iteration of the loop of _parse_probe: acc is [info, stream_count].
ParseLine(acc, raw, selected) ==
    LET format_line == Strip(raw)
        param == Split(format_line, "=")
        sc == IF Contains(format_line, STREAM)
              THEN acc.stream_count + 1 ELSE acc.stream_count
        key == IF param[1] \in DOMAIN acc.info
               THEN param[1] \o <<"_">> \o FormatInt(sc)
               ELSE param[1]
    IN  IF Contains(format_line, <<"=">>) /\ param[1] \in selected
        THEN [info |-> [k \in DOMAIN acc.info \cup {key} |->
                           IF k = key THEN param[2] ELSE acc.info[k]],
              stream_count |-> sc]
        ELSE [info |-> acc.info, stream_count |-> sc]

RECURSIVE ParseLoop(_, _, _)
ParseLoop(acc, lines, selected) ==
    IF lines = <<>> THEN acc
    ELSE ParseLoop(ParseLine(acc, Head(lines), selected), Tail(lines), selected)

EmptyDict == [k \in {} |-> <<>>]

\* Probe._parse_probe(selected_params, cmd), on the output the probe wrote
_parse_probe(selected, lines) ==
    ParseLoop([info |-> EmptyDict, stream_count |-> -1], lines, selected).info

\* Probe._parse_probe_format()
_parse_probe_format(lines) == _parse_probe(FormatParams, lines)

----------------------------------------------------------------------------
(* video.py: Video.is_valid(), exercised by tests/test_video.py *)

\* The values a test stores in format_info: a str, an int or a list.
StrVal(s) == [type |-> "str", str |-> s, num |-> 0]
IntVal(n) == [type |-> "int", str |-> <<>>, num |-> n]
ListVal == [type |-> "list", str |-> <<>>, num |-> 0]

DigitChars == {Digits[i] : i \in 1..10}

\* float(s) succeeds: an optional sign, digits, at most one point
IsFloatLiteral(s) ==
    LET body == IF s # <<>> /\ s[1] \in {"-", "+"} THEN Tail(s) ELSE s
    IN  /\ \A i \in 1..Len(body) : body[i] \in DigitChars \cup {"."}
        /\ \E i \in 1..Len(body) : body[i] \in DigitChars
        /\ Cardinality({i \in 1..Len(body) : body[i] = "."}) <= 1

\* float(s) > 0, for a literal s
FloatIsPositive(s) ==
    /\ s[1] # "-"
    /\ \E i \in 1..Len(s) : s[i] \in DigitChars \ {"0"}

s_NotNegative(s) == s[1] # "-"

\* is_valid accepting a duration of zero
is_valid_nonneg(finfo) ==
    IF k_duration \notin DOMAIN finfo THEN FALSE
    ELSE LET d == finfo[k_duration]
         IN  CASE d.type = "int" -> d.num >= 0
               [] d.type = "str" -> IsFloatLiteral(d.str) /\ s_NotNegative(d.str)
               [] OTHER -> FALSE

\* Video.is_valid(): the duration converts to a number greater than zero;
\* a missing key, a value that does not convert and a value of another
\* type all give False.
is_valid(finfo) ==
    IF k_duration \notin DOMAIN finfo THEN FALSE
    ELSE LET d == finfo[k_duration]
         IN  CASE d.type = "int" -> d.num > 0
               [] d.type = "str" -> IsFloatLiteral(d.str) /\ FloatIsPositive(d.str)
               [] OTHER -> FALSE

----------------------------------------------------------------------------
(* The probe output the model draws from *)

l_size1 == k_size \o <<"=", "1">>
l_size2 == <<" ">> \o k_size \o <<"=", "2", "\n">>
l_size0 == k_size \o <<"_", "0", "=", "9">>
l_noeq == k_size
l_width == k_width \o <<"=", "5">>
l_file == k_filename \o <<"=", "a", "=", "b">>
l_stream == STREAM \o <<"\n">>
l_durNA == k_duration \o <<"=", "N", "/", "A">>
l_dur0 == k_duration \o <<"=", "0", ".", "0">>
l_dur2 == k_duration \o <<"=", "2", ".", "5", "\n">>

ProbeLines ==
    {l_size1, l_size2, l_size0, l_noeq, l_width, l_file, l_stream,
     l_durNA, l_dur0, l_dur2}

RECURSIVE SeqsUpTo(_, _)
SeqsUpTo(S, n) ==
    IF n = 0 THEN {<<>>}
    ELSE LET shorter == SeqsUpTo(S, n - 1)
         IN  shorter \cup {Append(q, x) : q \in shorter, x \in S}

ProbeOutputs == SeqsUpTo(ProbeLines, MaxLines)

\* The sets of selected parameters the model draws from: the one of
\* _parse_probe_format, a set with an unselected size, and a set in which
\* one name is another name followed by "_" and a stream number.
SelectedSets ==
    {FormatParams, {k_width, k_duration}, {k_size, k_size \o <<"_", "0">>}}

NoRet == [op |-> "none", outcome |-> "none"]

\* no main window exists
GuiIdle == [pc |-> "none"]

StoreIdle ==
    /\ gui = GuiIdle
    /\ user = <<>>
    /\ constructed = FALSE
    /\ added = {}
    /\ adds = 0
    /\ profile = <<>>

ProbeInit ==
    /\ probe_file \in ProbeOutputs
    /\ selected_params \in SelectedSets
    /\ info = EmptyDict
    /\ format_info = EmptyDict
    /\ valid = FALSE
    /\ ret = NoRet
    /\ StoreIdle

\* a call of Probe._parse_probe
ParseProbe ==
    /\ info' = _parse_probe(selected_params, probe_file)
    /\ ret' = [op |-> "_parse_probe", outcome |-> "ok"]
    /\ UNCHANGED <<probe_file, selected_params, format_info, valid>>
    /\ UNCHANGED <<user, constructed, added, adds, profile, gui>>

\* Probe.__init__: format_info is what _parse_probe_format returns
ProbeNew ==
    /\ format_info' = LET d == _parse_probe_format(probe_file)
                      IN  [k \in DOMAIN d |-> StrVal(d[k])]
    /\ ret' = [op |-> "Probe", outcome |-> "ok"]
    /\ UNCHANGED <<probe_file, selected_params, info, valid>>
    /\ UNCHANGED <<user, constructed, added, adds, profile, gui>>

\* the values tests/test_video.py stores under "duration"
TestDurations ==
    {IntVal(0), IntVal(1), ListVal, StrVal(<<"N", "/", "A">>), StrVal(<<"1", "0">>)}

\* format_info["duration"] = v
SetDuration ==
    /\ ret.op \in {"Probe", "set", "del", "is_valid"}
    /\ \E v \in TestDurations :
          format_info' = [k \in DOMAIN format_info \cup {k_duration} |->
                             IF k = k_duration THEN v ELSE format_info[k]]
    /\ ret' = [op |-> "set", outcome |-> "ok"]
    /\ UNCHANGED <<probe_file, selected_params, info, valid>>
    /\ UNCHANGED <<user, constructed, added, adds, profile, gui>>

\* del format_info["duration"]
DelDuration ==
    /\ ret.op \in {"Probe", "set", "del", "is_valid"}
    /\ k_duration \in DOMAIN format_info
    /\ format_info' = [k \in DOMAIN format_info \ {k_duration} |-> format_info[k]]
    /\ ret' = [op |-> "del", outcome |-> "ok"]
    /\ UNCHANGED <<probe_file, selected_params, info, valid>>
    /\ UNCHANGED <<user, constructed, added, adds, profile, gui>>

\* a call of Video.is_valid()
IsValid ==
    /\ ret.op \in {"Probe", "set", "del", "is_valid"}
    /\ valid' = is_valid(format_info)
    /\ ret' = [op |-> "is_valid", outcome |-> "ok"]
    /\ UNCHANGED <<probe_file, selected_params, info, format_info>>
    /\ UNCHANGED <<user, constructed, added, adds, profile, gui>>

ProbeNext == ParseProbe

ProbeSpec == ProbeInit /\ [][ProbeNext]_vars

VideoInit ==
    /\ probe_file \in ProbeOutputs
    /\ selected_params = FormatParams
    /\ info = EmptyDict
    /\ format_info = EmptyDict
    /\ valid = FALSE
    /\ ret = NoRet
    /\ StoreIdle

VideoNext == ProbeNew \/ SetDuration \/ DelDuration \/ IsValid

VideoSpec == VideoInit /\ [][VideoNext]_vars

----------------------------------------------------------------------------
(* profile.py: the documents and files of the profile store *)

Lowers == <<"a", "b", "c", "d", "e", "f", "g", "h", "i", "j", "k", "l", "m",
            "n", "o", "p", "q", "r", "s", "t", "u", "v", "w", "x", "y", "z">>
Uppers == <<"A", "B", "C", "D", "E", "F", "G", "H", "I", "J", "K", "L", "M",
            "N", "O", "P", "Q", "R", "S", "T", "U", "V", "W", "X", "Y", "Z">>

LowerChars == {Lowers[i] : i \in 1..26}
UpperChars == {Uppers[i] : i \in 1..26}

UpperChar(c) ==
    IF c \in LowerChars THEN Uppers[CHOOSE i \in 1..26 : Lowers[i] = c] ELSE c
LowerChar(c) ==
    IF c \in UpperChars THEN Lowers[CHOOSE i \in 1..26 : Uppers[i] = c] ELSE c

\* str.upper() and str.lower()
Upper(s) == [i \in 1..Len(s) |-> UpperChar(s[i])]
Lower(s) == [i \in 1..Len(s) |-> LowerChar(s[i])]

\* the character class [A-z] of the regular expression of _create_xml_preset:
\* the ASCII range from "A" to "z", which also holds the punctuation between
\* "Z" and "a" (the backslash and the grave accent are not used by the model)
AzChars == UpperChars \cup LowerChars \cup {"[", "]", "^", "_"}

\* ''.join(re.compile(r'[A-z][0-9]?').findall(s))
RECURSIVE JoinFindall(_)
JoinFindall(s) ==
    IF s = <<>> THEN <<>>
    ELSE IF Head(s) \in AzChars
         THEN IF Len(s) >= 2 /\ s[2] \in DigitChars
              THEN <<s[1], s[2]>> \o JoinFindall(SubSeq(s, 3, Len(s)))
              ELSE <<s[1]>> \o JoinFindall(Tail(s))
         ELSE JoinFindall(Tail(s))

\* An element of a preset: item[0..3].text, under the tag of the preset.
Preset(tag, name, params, ext, name_es) ==
    [tag |-> tag, preset_name |-> name, preset_params |-> params,
     file_extension |-> ext, preset_name_es |-> name_es]

\* A profile element: its tag and its presets in document order.
Element(tag, items) == [tag |-> tag, items |-> items]

\* _create_xml_preset(preset, params, extension)
_create_xml_preset(preset, params, extension) ==
    Preset(JoinFindall(preset), preset, params, extension, preset)

\* The parser accepts a tag that is an XML name.
IsXmlName(t) ==
    /\ t # <<>>
    /\ t[1] \in UpperChars \cup LowerChars \cup {"_", ":"}
    /\ \A i \in 1..Len(t) :
          t[i] \in UpperChars \cup LowerChars \cup DigitChars \cup {"_", ":", "-", "."}

\* A written tree parses again when every tag it holds is an XML name.
TreeIsWellFormed(root) ==
    \A i \in 1..Len(root) :
        /\ IsXmlName(root[i].tag)
        /\ \A j \in 1..Len(root[i].items) : IsXmlName(root[i].items[j].tag)

\* XML_FILES: the default file, then the customised one
XML_FILES == <<"default", "customized">>

\* VALID_VIDEO_EXT, as far as the model's extensions go
VALID_VIDEO_EXT == {<<".", "m", "p", "4">>, <<".", "a", "v", "i">>}

t_mp4 == <<".", "m", "p", "4">>
t_avi == <<".", "a", "v", "i">>
t_p1 == <<"p", "1">>
t_p2 == <<"p", "2">>
t_e1 == <<"e", "1">>
t_e2 == <<"e", "2">>
t_q == <<"q">>
t_r == <<"r">>
t_x == <<"-", "x">>
t_y == <<"-", "y">>
t_z == <<"-", "z">>

\* The documents of the model.
SysDefaultRoot ==
    <<Element(<<"A">>, <<Preset(t_p1, t_p1, t_x, t_mp4, t_e1)>>)>>
EditedDefaultRoot ==
    <<Element(<<"A">>, <<Preset(t_p1, t_p1, t_x, t_mp4, t_e1),
                         Preset(t_q, t_q, t_z, t_avi, t_q)>>)>>
SysCustomRoot ==
    <<Element(<<"B">>, <<Preset(t_p2, t_p2, t_y, t_avi, t_e2)>>)>>
UserCustomRoot ==
    <<Element(<<"C">>, <<Preset(t_r, t_r, t_x, t_mp4, t_r)>>),
      Element(<<"B">>, <<Preset(t_p2, t_p2, t_y, t_avi, t_e2)>>)>>

MaxTime == 2        \* modification times range over 0..MaxTime
MaxAdds == 2        \* successful add_xml_profile calls in one behaviour

\* The system copies were installed at SysTime; a write happens at Now.
SysTime == MaxTime - 1
Now == MaxTime

\* A file: missing, empty, not well-formed ("corrupt") or a document.
XmlFile(root, mtime) == [kind |-> "xml", root |-> root, mtime |-> mtime]
BadFile(kind, mtime) == [kind |-> kind, root |-> <<>>, mtime |-> mtime]
Missing == BadFile("missing", 0)

\* the file at _sys_xml_file_path(file_name)
SysFile(file_name) ==
    IF file_name = "default" THEN XmlFile(SysDefaultRoot, SysTime)
    ELSE XmlFile(SysCustomRoot, SysTime)

\* ElementTree.parse(path) succeeds
Parses(file) == file.kind = "xml"

\* _copy_xml_file(file_name): copy2 keeps the modification time
_copy_xml_file(files, file_name) ==
    [files EXCEPT ![file_name] = SysFile(file_name)]

\* _xml_file_is_correct taking a user file as old as the system copy for stale
_xml_file_is_correct_ge(files, file_name) ==
    IF files[file_name].kind \in {"missing", "empty"} THEN FALSE
    ELSE IF SysFile(file_name).mtime >= files[file_name].mtime THEN FALSE
    ELSE TRUE

\* _xml_file_is_correct(file_name)
_xml_file_is_correct(files, file_name) ==
    IF files[file_name].kind \in {"missing", "empty"} THEN FALSE
    ELSE IF SysFile(file_name).mtime > files[file_name].mtime THEN FALSE
    ELSE TRUE

\* _create_xml_files()
RECURSIVE CreateFrom(_, _)
CreateFrom(files, i) ==
    IF i > Len(XML_FILES) THEN files
    ELSE CreateFrom(IF ~_xml_file_is_correct(files, XML_FILES[i])
                    THEN _copy_xml_file(files, XML_FILES[i])
                    ELSE files,
                    i + 1)

_create_xml_files(files) == CreateFrom(files, 1)

\* restore_default_profiles copying the default file
restore_default_profiles_default(files) == _copy_xml_file(files, "default")

\* restore_default_profiles()
restore_default_profiles(files) == _copy_xml_file(files, "customized")

\* _get_xml_root(xml_file_name): the files afterwards, and the root or the
\* exception raised
_get_xml_root(files, xml_file_name) ==
    IF files[xml_file_name].kind = "missing"
    THEN [files |-> files, outcome |-> "FileNotFoundError", root |-> <<>>]
    ELSE IF Parses(files[xml_file_name])
    THEN [files |-> files, outcome |-> "ok", root |-> files[xml_file_name].root]
    ELSE LET restored == restore_default_profiles(files)
         IN  IF Parses(restored[xml_file_name])
             THEN [files |-> restored, outcome |-> "ok",
                   root |-> restored[xml_file_name].root]
             ELSE [files |-> restored, outcome |-> "ParseError", root |-> <<>>]

\* _save_xml_tree(xml_tree): the customised file holds the written tree
_save_xml_tree(files, xml_tree) ==
    [files EXCEPT !["customized"] =
        IF TreeIsWellFormed(xml_tree) THEN XmlFile(xml_tree, Now)
        ELSE BadFile("corrupt", Now)]

InsertFirst(seq, x) == <<x>> \o seq

\* _insert_xml_elements(xml_profile, xml_preset, xml_root)
_insert_xml_elements(files, profile_tag, xml_preset, xml_root) ==
    IF \E i \in 1..Len(xml_root) : xml_root[i].tag = profile_tag
    THEN LET i == CHOOSE j \in 1..Len(xml_root) :
                     /\ xml_root[j].tag = profile_tag
                     /\ \A k \in 1..(j - 1) : xml_root[k].tag # profile_tag
         IN  _save_xml_tree(files,
                 [xml_root EXCEPT ![i].items = InsertFirst(@, xml_preset)])
    ELSE _save_xml_tree(files,
             InsertFirst(xml_root, Element(profile_tag, <<xml_preset>>)))

\* add_xml_profile reading and saving the tree before it checks the extension
add_xml_profile_late_check(files, profile_name, preset, params, extension) ==
    IF profile_name = <<>>
    THEN [files |-> files, outcome |-> "ProfileBlankNameError"]
    ELSE IF preset = <<>>
    THEN [files |-> files, outcome |-> "ProfileBlankPresetError"]
    ELSE IF params = <<>>
    THEN [files |-> files, outcome |-> "ProfileBlankParamsError"]
    ELSE LET r == _get_xml_root(files, "customized")
             saved == _insert_xml_elements(
                          r.files, Upper(profile_name),
                          _create_xml_preset(preset, params, Lower(extension)),
                          r.root)
         IN  IF r.outcome # "ok"
             THEN [files |-> r.files, outcome |-> r.outcome]
             ELSE IF extension = <<>> \/ Head(extension) # "."
                     \/ extension \notin VALID_VIDEO_EXT
             THEN [files |-> saved, outcome |-> "ProfileExtensionError"]
             ELSE [files |-> saved, outcome |-> "ok"]

\* add_xml_profile(profile_name, preset, params, extension): the files
\* afterwards and the exception raised, if any
add_xml_profile(files, profile_name, preset, params, extension) ==
    IF profile_name = <<>>
    THEN [files |-> files, outcome |-> "ProfileBlankNameError"]
    ELSE IF preset = <<>>
    THEN [files |-> files, outcome |-> "ProfileBlankPresetError"]
    ELSE IF params = <<>>
    THEN [files |-> files, outcome |-> "ProfileBlankParamsError"]
    ELSE IF extension = <<>> \/ Head(extension) # "."
            \/ extension \notin VALID_VIDEO_EXT
    THEN [files |-> files, outcome |-> "ProfileExtensionError"]
    ELSE LET r == _get_xml_root(files, "customized")
         IN  IF r.outcome # "ok"
             THEN [files |-> r.files, outcome |-> r.outcome]
             ELSE [files |-> _insert_xml_elements(
                                 r.files, Upper(profile_name),
                                 _create_xml_preset(preset, params, Lower(extension)),
                                 r.root),
                   outcome |-> "ok"]

\* the presets of a root, in the order the loops of get_xml_profile_attr
\* visit them
RECURSIVE Items(_)
Items(root) ==
    IF root = <<>> THEN <<>> ELSE Head(root).items \o Items(Tail(root))

\* Matches comparing the preset_name only
Matches_name_only(item, target_quality) ==
    item.preset_name = target_quality

Matches(item, target_quality) ==
    item.preset_name = target_quality \/ item.preset_name_es = target_quality

\* get_xml_profile_attr(target_quality, attr_name), from the i-th file on
RECURSIVE AttrFrom(_, _, _, _)
AttrFrom(files, i, target_quality, attr_name) ==
    IF i > Len(XML_FILES)
    THEN [files |-> files, outcome |-> "ValueError", value |-> <<>>]
    ELSE LET r == _get_xml_root(files, XML_FILES[i])
             items == Items(r.root)
             hits == {j \in 1..Len(items) : Matches(items[j], target_quality)}
         IN  IF r.outcome # "ok"
             THEN [files |-> r.files, outcome |-> r.outcome, value |-> <<>>]
             ELSE IF hits # {}
             THEN [files |-> r.files, outcome |-> "ok",
                   value |-> items[CHOOSE j \in hits : \A k \in hits : j <= k][attr_name]]
             ELSE AttrFrom(r.files, i + 1, target_quality, attr_name)

get_xml_profile_attr(files, target_quality, attr_name) ==
    AttrFrom(files, 1, target_quality, attr_name)

\* _get_qualities(element, locale)
_get_qualities(element, locale) ==
    [j \in 1..Len(element.items) |->
        IF locale = "es_ES" THEN element.items[j].preset_name_es
        ELSE element.items[j].preset_name]

\* QualitiesOfRoot assigning where the code extends the list
RECURSIVE QualitiesOfRoot_assign(_, _, _)
QualitiesOfRoot_assign(dict, root, locale) ==
    IF root = <<>> THEN dict
    ELSE LET element == Head(root)
             qualities == _get_qualities(element, locale)
             at == {i \in 1..Len(dict) : dict[i].key = element.tag}
         IN  QualitiesOfRoot_assign(
                 IF at = {}
                 THEN Append(dict, [key |-> element.tag, value |-> qualities])
                 ELSE [i \in 1..Len(dict) |->
                          IF i \in at
                          THEN [key |-> dict[i].key, value |-> qualities]
                          ELSE dict[i]],
                 Tail(root), locale)

\* The OrderedDict of get_xml_profile_qualities is a sequence of entries
\* [key, value] in insertion order.  One pass of the inner loop:
RECURSIVE QualitiesOfRoot(_, _, _)
QualitiesOfRoot(dict, root, locale) ==
    IF root = <<>> THEN dict
    ELSE LET element == Head(root)
             qualities == _get_qualities(element, locale)
             at == {i \in 1..Len(dict) : dict[i].key = element.tag}
         IN  QualitiesOfRoot(
                 IF at = {}
                 THEN Append(dict, [key |-> element.tag, value |-> qualities])
                 ELSE [i \in 1..Len(dict) |->
                          IF i \in at
                          THEN [key |-> dict[i].key,
                                value |-> dict[i].value \o qualities]
                          ELSE dict[i]],
                 Tail(root), locale)

RECURSIVE QualitiesFrom(_, _, _, _)
QualitiesFrom(files, i, dict, locale) ==
    IF i > Len(XML_FILES)
    THEN [files |-> files, outcome |-> "ok", value |-> dict]
    ELSE LET r == _get_xml_root(files, XML_FILES[i])
         IN  IF r.outcome # "ok"
             THEN [files |-> r.files, outcome |-> r.outcome, value |-> <<>>]
             ELSE QualitiesFrom(r.files, i + 1,
                                QualitiesOfRoot(dict, r.root, locale), locale)

\* get_xml_profile_qualities(locale)
get_xml_profile_qualities(files, locale) == QualitiesFrom(files, 1, <<>>, locale)

----------------------------------------------------------------------------
(* profile.py: the operations of Profile and _XMLProfile *)

None == <<"None">>

t_bad == <<"n", "o">>
t_MP4 == <<".", "M", "P", "4">>
t_7 == <<"7">>

\* The arguments the model draws from: every combination that passes the
\* checks of add_xml_profile, and for each check the arguments that fail it
\* (with the later arguments failing their checks as well, or passing them).
GoodProfileNames == {<<"a">>, <<"b">>}
GoodPresets == {t_p1, t_q, t_7}
BadExtensions == {<<>>, t_MP4, <<"m", "p", "4">>, <<".", "t", "x", "t">>}

AddArguments ==
    {<<n, p, t_y, t_mp4>> : n \in GoodProfileNames, p \in GoodPresets}
    \cup {<<<<>>, <<>>, <<>>, <<>>>>, <<<<>>, t_q, t_y, t_mp4>>,
          <<<<"a">>, <<>>, <<>>, t_MP4>>, <<<<"a">>, <<>>, t_y, t_mp4>>,
          <<<<"a">>, t_q, <<>>, <<>>>>, <<<<"a">>, t_q, <<>>, t_mp4>>}
    \cup {<<<<"a">>, t_q, t_y, e>> : e \in BadExtensions}

Qualities == {t_p1, t_e1, t_q, t_bad}
AttrNames == {"preset_name", "preset_params", "file_extension", "preset_name_es"}
Locales == {"es_ES", "en_US"}

\* The states a file of the user's directory may be found in at start-up.
UserFiles(roots) ==
    {Missing}
    \cup {BadFile(kind, t) : kind \in {"empty", "corrupt"}, t \in 0..MaxTime}
    \cup {XmlFile(root, t) : root \in roots, t \in 0..MaxTime}

ProbeIdle ==
    /\ probe_file = <<>>
    /\ selected_params = {}
    /\ info = EmptyDict
    /\ format_info = EmptyDict
    /\ valid = FALSE

Init ==
    /\ user \in [{"default", "customized"} ->
                    UserFiles({SysDefaultRoot, EditedDefaultRoot,
                               SysCustomRoot, UserCustomRoot})]
    /\ user["default"] \in UserFiles({SysDefaultRoot, EditedDefaultRoot})
    /\ user["customized"] \in UserFiles({SysCustomRoot, UserCustomRoot})
    /\ constructed = FALSE
    /\ ret = NoRet
    /\ added = {}
    /\ adds = 0
    /\ profile = [quality |-> None, params |-> None, extension |-> None]
    /\ gui = GuiIdle
    /\ ProbeIdle

\* Profile.__init__, which builds the _XMLProfile: _create_xml_files()
Construct ==
    /\ user' = _create_xml_files(user)
    /\ constructed' = TRUE
    /\ profile' = [quality |-> None, params |-> None, extension |-> None]
    /\ ret' = [op |-> "construct", outcome |-> "ok"]
    /\ UNCHANGED <<added, adds>>
    /\ UNCHANGED probeVars
    /\ UNCHANGED gui

RestoreDefaultProfiles ==
    /\ constructed
    /\ user' = restore_default_profiles(user)
    /\ ret' = [op |-> "restore", outcome |-> "ok"]
    /\ UNCHANGED <<constructed, added, adds, profile>>
    /\ UNCHANGED probeVars
    /\ UNCHANGED gui

AddXmlProfile ==
    /\ constructed
    /\ \E args \in AddArguments :
          LET profile_name == args[1]
              preset == args[2]
              params == args[3]
              extension == args[4]
              r == add_xml_profile(user, profile_name, preset, params, extension)
          IN  /\ r.outcome = "ok" => adds < MaxAdds
              /\ user' = r.files
              /\ ret' = [op |-> "add", outcome |-> r.outcome,
                         profile_name |-> profile_name, preset |-> preset,
                         params |-> params, extension |-> extension]
              /\ added' = IF r.outcome = "ok" THEN added \cup {preset} ELSE added
              /\ adds' = IF r.outcome = "ok" THEN adds + 1 ELSE adds
    /\ UNCHANGED <<constructed, profile>>
    /\ UNCHANGED probeVars
    /\ UNCHANGED gui

GetXmlProfileAttr ==
    /\ constructed
    /\ \E target_quality \in Qualities, attr_name \in AttrNames :
          LET r == get_xml_profile_attr(user, target_quality, attr_name)
          IN  /\ user' = r.files
              /\ ret' = [op |-> "attr", outcome |-> r.outcome,
                         target_quality |-> target_quality,
                         attr_name |-> attr_name, value |-> r.value]
    /\ UNCHANGED <<constructed, added, adds, profile>>
    /\ UNCHANGED probeVars
    /\ UNCHANGED gui

GetXmlProfileQualities ==
    /\ constructed
    /\ \E locale \in Locales :
          LET r == get_xml_profile_qualities(user, locale)
          IN  /\ user' = r.files
              /\ ret' = [op |-> "qualities", outcome |-> r.outcome,
                         locale |-> locale, value |-> r.value]
    /\ UNCHANGED <<constructed, added, adds, profile>>
    /\ UNCHANGED probeVars
    /\ UNCHANGED gui

\* Profile.update(new_quality): the fields of the profile and the files
\* afterwards, and the exception raised, if any
update(prof, files, new_quality) ==
    LET p == get_xml_profile_attr(files, new_quality, "preset_params")
        e == get_xml_profile_attr(p.files, new_quality, "file_extension")
    IN  IF p.outcome # "ok"
        THEN [profile |-> [prof EXCEPT !.quality = new_quality],
              files |-> p.files, outcome |-> p.outcome]
        ELSE IF e.outcome # "ok"
        THEN [profile |-> [prof EXCEPT !.quality = new_quality,
                                       !.params = p.value],
              files |-> e.files, outcome |-> e.outcome]
        ELSE [profile |-> [quality |-> new_quality, params |-> p.value,
                           extension |-> e.value],
              files |-> e.files, outcome |-> "ok"]

Update ==
    /\ constructed
    /\ \E new_quality \in Qualities :
          LET r == update(profile, user, new_quality)
          IN  /\ profile' = r.profile
              /\ user' = r.files
              /\ ret' = [op |-> "update", outcome |-> r.outcome,
                         new_quality |-> new_quality]
    /\ UNCHANGED <<constructed, added, adds>>
    /\ UNCHANGED probeVars
    /\ UNCHANGED gui

Next ==
    \/ Construct
    \/ RestoreDefaultProfiles
    \/ AddXmlProfile
    \/ GetXmlProfileAttr
    \/ GetXmlProfileQualities

Spec == Init /\ [][Next]_vars

\* The store as a Profile object uses it.
ProfileNext ==
    \/ Construct
    \/ RestoreDefaultProfiles
    \/ AddXmlProfile
    \/ Update

ProfileSpec == Init /\ [][ProfileNext]_vars

----------------------------------------------------------------------------
(* vmwidgets.py: TargetQualityDelegate.update and the window it updates *)

MaxRows == 2        \* the media list has at most this many rows

\* STATUS: the states of a task
STATUS == [todo |-> "todo", done |-> "done", stopped |-> "stopped"]

TaskDurations == {1, 2}

\* A task of the media list.
Task(status, duration) == [status |-> status, duration |-> duration]

\* MediaList.duration: the total duration of the tasks still to do
RECURSIVE duration(_)
duration(media_list) ==
    IF media_list = <<>> THEN 0
    ELSE (IF Head(media_list).status = STATUS.todo
          THEN Head(media_list).duration ELSE 0) + duration(Tail(media_list))

\* MediaList.set_file_status(position, status)
set_file_status(media_list, position, status) ==
    [media_list EXCEPT ![position].status = status]

\* update_table_progress_column(row): the progress cell of a task that is
\* Done or Stopped shows that the task is to be converted again
update_table_progress_column(progress, media_list, row) ==
    IF media_list[row].status \in {STATUS.done, STATUS.stopped}
    THEN [progress EXCEPT ![row] = "To convert"]
    ELSE progress

WidgetInit ==
    /\ \E tasks \in SeqsUpTo({Task(STATUS.todo, d) : d \in TaskDurations}, MaxRows) :
          gui = [pc |-> "idle", media_list |-> tasks,
                 progress |-> [i \in 1..Len(tasks) |-> "To convert"],
                 total_duration |-> duration(tasks),
                 row |-> 0, old |-> STATUS.todo, shown |-> duration(tasks)]
    /\ user = <<>>
    /\ constructed = FALSE
    /\ added = {}
    /\ adds = 0
    /\ profile = <<>>
    /\ ret = NoRet
    /\ ProbeIdle

\* A conversion ends: the task is done or was stopped, and its progress
\* cell says so.
Finish ==
    /\ gui.pc = "idle"
    /\ \E row \in 1..Len(gui.media_list), status \in {STATUS.done, STATUS.stopped} :
          /\ gui.media_list[row].status = STATUS.todo
          /\ gui' = [gui EXCEPT
                        !.media_list = set_file_status(@, row, status),
                        !.progress = [@ EXCEPT ![row] = status]]
    /\ ret' = [op |-> "finish", outcome |-> "ok"]
    /\ UNCHANGED <<user, constructed, added, adds, profile>>
    /\ UNCHANGED probeVars

\* TargetQualityDelegate.update(editor, index), first statement, run when a
\* quality is activated in the combo box createEditor made for a row:
\* parent.update_table_progress_column(row=index.row())
UpdateProgressColumn ==
    /\ gui.pc = "idle"
    /\ \E row \in 1..Len(gui.media_list) :
          gui' = [gui EXCEPT
                     !.pc = "set_file_status",
                     !.row = row,
                     !.old = gui.media_list[row].status,
                     !.progress = update_table_progress_column(
                                      @, gui.media_list, row)]
    /\ ret' = [op |-> "update_table_progress_column", outcome |-> "ok"]
    /\ UNCHANGED <<user, constructed, added, adds, profile>>
    /\ UNCHANGED probeVars

\* UpdateFileStatus setting the status of the first row, not of index.row()
UpdateFileStatus_first ==
    /\ gui.pc = "set_file_status"
    /\ gui' = [gui EXCEPT
                  !.pc = "total_duration",
                  !.media_list = set_file_status(@, 1, STATUS.todo)]
    /\ ret' = [op |-> "set_file_status", outcome |-> "ok"]
    /\ UNCHANGED <<user, constructed, added, adds, profile>>
    /\ UNCHANGED probeVars

\* parent.media_list.set_file_status(position=index.row(), status=STATUS.todo)
UpdateFileStatus ==
    /\ gui.pc = "set_file_status"
    /\ gui' = [gui EXCEPT
                  !.pc = "total_duration",
                  !.media_list = set_file_status(@, gui.row, STATUS.todo)]
    /\ ret' = [op |-> "set_file_status", outcome |-> "ok"]
    /\ UNCHANGED <<user, constructed, added, adds, profile>>
    /\ UNCHANGED probeVars

\* parent.total_duration = parent.media_list.duration
UpdateTotalDuration ==
    /\ gui.pc = "total_duration"
    /\ gui' = [gui EXCEPT
                  !.pc = "update_interface",
                  !.total_duration = duration(gui.media_list)]
    /\ ret' = [op |-> "total_duration", outcome |-> "ok"]
    /\ UNCHANGED <<user, constructed, added, adds, profile>>
    /\ UNCHANGED probeVars

\* parent.update_interface(...) and tb_tasks.setEditTriggers(...): the window
\* shows the total duration it holds
UpdateInterface ==
    /\ gui.pc = "update_interface"
    /\ gui' = [gui EXCEPT !.pc = "idle", !.shown = gui.total_duration]
    /\ ret' = [op |-> "update_interface", outcome |-> "ok"]
    /\ UNCHANGED <<user, constructed, added, adds, profile>>
    /\ UNCHANGED probeVars

WidgetNext ==
    \/ Finish
    \/ UpdateProgressColumn
    \/ UpdateFileStatus
    \/ UpdateTotalDuration
    \/ UpdateInterface

WidgetSpec == WidgetInit /\ [][WidgetNext]_vars

----------------------------------------------------------------------------
(* Claims about probe.py *)

\* the stripped line has the form K=...
HasForm(raw, K) ==
    LET line == Strip(raw)
    IN  /\ Len(line) > Len(K)
        /\ SubSeq(line, 1, Len(K)) = K
        /\ line[Len(K) + 1] = "="

\* the text after the first "=" of a stripped line of the form K=V
ValueText(raw, K) ==
    LET line == Strip(raw) IN SubSeq(line, Len(K) + 2, Len(line))

LinesOf(K) == {i \in 1..Len(probe_file) : HasForm(probe_file[i], K)}

FirstLineOf(K) == CHOOSE i \in LinesOf(K) : \A j \in LinesOf(K) : i <= j

IsPrefix(p, s) == Len(p) <= Len(s) /\ SubSeq(s, 1, Len(p)) = p

\* a key the parser derives: a selected name, "_" and a stream number
DerivedKeys(selected) ==
    {K \o <<"_">> \o FormatInt(n) : K \in selected, n \in (-1)..MaxLines}

PlainEntries ==
    /\ \A K \in selected_params :
          /\ K \in DOMAIN info <=> LinesOf(K) # {}
          /\ LinesOf(K) # {} =>
                LET V == ValueText(probe_file[FirstLineOf(K)], K)
                IN  /\ IsPrefix(info[K], V)
                    /\ (\A i \in 1..Len(V) : V[i] # "=") => info[K] = V
    /\ \A k \in DOMAIN info :
          k \in selected_params \cup DerivedKeys(selected_params)

NoDerivedSelected == selected_params \cap DerivedKeys(selected_params) = {}

C3_WholeValue ==
    (ret.op = "_parse_probe" /\ selected_params = FormatParams) =>
        \A K \in selected_params :
            LinesOf(K) # {} =>
                /\ K \in DOMAIN info
                /\ info[K] = ValueText(probe_file[FirstLineOf(K)], K)

----------------------------------------------------------------------------
(* Claims about Video.is_valid *)

\* the durations of the model that denote a number greater than zero
PositiveDurations ==
    {IntVal(1), StrVal(<<"1", "0">>), StrVal(<<"2", ".", "5">>)}

\* C7: is_valid() is true only for a duration that denotes a number greater
\* than zero, and false for a missing, zero, non-numeric or wrongly typed one.
C7_IsValid ==
    ret.op = "is_valid" =>
        /\ valid => /\ k_duration \in DOMAIN format_info
                    /\ format_info[k_duration] \in PositiveDurations
        /\ k_duration \notin DOMAIN format_info => ~valid
        /\ k_duration \in DOMAIN format_info =>
              (format_info[k_duration] \in
                  {IntVal(0), ListVal, StrVal(<<"N", "/", "A">>),
                   StrVal(<<"0", ".", "0">>)} => ~valid)

C7_Witness ==
    /\ ret.op = "is_valid"
    /\ k_duration \in DOMAIN format_info
    /\ format_info[k_duration] = ListVal
    /\ ~valid

----------------------------------------------------------------------------
(* Claims about the profile store *)

ArgumentErrors ==
    {"ProfileBlankNameError", "ProfileBlankPresetError",
     "ProfileBlankParamsError", "ProfileExtensionError"}

\* C1 as stated: a read that meets a user file that does not parse copies the
\* system copy of that file over it and does not raise ParseError.  The
\* default file is read by get_xml_profile_attr and
\* get_xml_profile_qualities, the customised one by
\* get_xml_profile_qualities after the default one and by the read step of
\* add_xml_profile.
C1_ReadRestoresFile ==
    [][/\ (ret'.op \in {"attr", "qualities"} /\ ~Parses(user["default"])) =>
              /\ user'["default"] = SysFile("default")
              /\ ret'.outcome # "ParseError"
       /\ (/\ \/ ret'.op = "qualities" /\ Parses(user["default"])
              \/ ret'.op = "add" /\ ret'.outcome \notin ArgumentErrors
           /\ ~Parses(user["customized"])) =>
              /\ (ret'.op = "qualities" => user'["customized"] = SysFile("customized"))
              /\ ret'.outcome # "ParseError"]_vars

\* C4 as stated: after add_xml_profile returns without error,
\* get_xml_profile_attr gives the params and the lower-cased extension of
\* the added preset, whatever the files held before.
C4_AddThenGet ==
    (ret.op = "add" /\ ret.outcome = "ok") =>
        LET p == get_xml_profile_attr(user, ret.preset, "preset_params")
            e == get_xml_profile_attr(user, ret.preset, "file_extension")
        IN  /\ p.outcome = "ok" /\ p.value = ret.params
            /\ e.outcome = "ok" /\ e.value = Lower(ret.extension)

\* the extension check of C5, stated on the text
ExtensionIsValid(extension) ==
    /\ Len(extension) >= 1
    /\ extension[1] = "."
    /\ extension \in VALID_VIDEO_EXT

\* C5: add_xml_profile checks the name, the preset, the params and the
\* extension in that order and raises the error of the first check that
\* fails; when it raises one of them, no user file changes.
C5_ArgumentChecks ==
    [][ret'.op = "add" =>
          /\ ret'.profile_name = <<>> => ret'.outcome = "ProfileBlankNameError"
          /\ (ret'.profile_name # <<>> /\ ret'.preset = <<>>) =>
                ret'.outcome = "ProfileBlankPresetError"
          /\ (ret'.profile_name # <<>> /\ ret'.preset # <<>>
              /\ ret'.params = <<>>) =>
                ret'.outcome = "ProfileBlankParamsError"
          /\ (ret'.profile_name # <<>> /\ ret'.preset # <<>>
              /\ ret'.params # <<>>) =>
                (ret'.outcome = "ProfileExtensionError"
                    <=> ~ExtensionIsValid(ret'.extension))
          /\ (ret'.profile_name # <<>> /\ ret'.preset # <<>>
              /\ ret'.params # <<>> /\ ExtensionIsValid(ret'.extension)) =>
                ret'.outcome \notin ArgumentErrors
          /\ ret'.outcome \in ArgumentErrors => user' = user]_vars

C5_Witness ==
    /\ ret.op = "add"
    /\ ret.outcome = "ProfileExtensionError"
    /\ ret.extension = t_MP4
    /\ adds > 0

\* the profile elements of all files, in XML_FILES order and document order
AllElements == user["default"].root \o user["customized"].root

NameOf(item, locale) ==
    IF locale = "es_ES" THEN item.preset_name_es ELSE item.preset_name

\* the names of the presets under a tag, over all elements, in order
RECURSIVE NamesUnder(_, _, _)
NamesUnder(elements, tag, locale) ==
    IF elements = <<>> THEN <<>>
    ELSE (IF Head(elements).tag = tag
          THEN [j \in 1..Len(Head(elements).items) |->
                   NameOf(Head(elements).items[j], locale)]
          ELSE <<>>) \o NamesUnder(Tail(elements), tag, locale)

FirstIndexOf(elements, tag) ==
    CHOOSE i \in 1..Len(elements) :
        elements[i].tag = tag /\ \A k \in 1..(i - 1) : elements[k].tag # tag

RECURSIVE SumLen(_)
SumLen(seqs) == IF seqs = <<>> THEN 0 ELSE Len(Head(seqs)) + SumLen(Tail(seqs))

\* C6: get_xml_profile_qualities returns one entry per distinct tag, in order
\* of first appearance, each holding the names of all presets under that tag
\* in file and document order, in the language of the locale; every preset
\* is listed once.
C6_Qualities ==
    (ret.op = "qualities" /\ ret.outcome = "ok") =>
        LET d == ret.value
            all == AllElements
        IN  /\ {d[i].key : i \in 1..Len(d)} = {all[i].tag : i \in 1..Len(all)}
            /\ \A i, j \in 1..Len(d) : i # j => d[i].key # d[j].key
            /\ \A i, j \in 1..Len(d) :
                  i < j => FirstIndexOf(all, d[i].key) < FirstIndexOf(all, d[j].key)
            /\ \A i \in 1..Len(d) :
                  d[i].value = NamesUnder(all, d[i].key, ret.locale)
            /\ SumLen([i \in 1..Len(d) |-> d[i].value])
                  = SumLen([i \in 1..Len(all) |-> all[i].items])

C6_Witness ==
    /\ ret.op = "qualities"
    /\ ret.outcome = "ok"
    /\ ret.locale = "es_ES"
    /\ \E i \in 1..Len(user["customized"].root) :
          user["customized"].root[i].tag = <<"A">>
    /\ \E i \in 1..Len(ret.value) :
          ret.value[i].key = <<"A">> /\ Len(ret.value[i].value) >= 2

\* C8 as stated: after an update, failed or not, params and extension are
\* those of the preset that matches the quality, or all three are None.
C8_ProfileConsistent ==
    ret.op = "update" =>
        \/ profile = [quality |-> None, params |-> None, extension |-> None]
        \/ LET p == get_xml_profile_attr(user, profile.quality, "preset_params")
               e == get_xml_profile_attr(user, profile.quality, "file_extension")
           IN  /\ p.outcome = "ok" /\ p.value = profile.params
               /\ e.outcome = "ok" /\ e.value = profile.extension

\* C9: constructing the store overwrites a user file with its system copy
\* exactly when the file is missing, empty or strictly older than the system
\* copy, and leaves it as it is otherwise; a file add_xml_profile has just
\* written is left as it is.
C9_CreateXmlFiles ==
    [][ret'.op = "construct" =>
          /\ \A f \in {"default", "customized"} :
                user'[f] = IF \/ user[f].kind \in {"missing", "empty"}
                              \/ user[f].mtime < SysFile(f).mtime
                           THEN SysFile(f)
                           ELSE user[f]
          /\ (ret.op = "add" /\ ret.outcome = "ok") =>
                user'["customized"] = user["customized"]]_vars

ItemNames(root) ==
    {Items(root)[j].preset_name : j \in 1..Len(Items(root))}
    \cup {Items(root)[j].preset_name_es : j \in 1..Len(Items(root))}

C9_Witness ==
    /\ ret.op = "construct"
    /\ user["customized"].kind = "xml"
    /\ user["customized"].root # SysCustomRoot
    /\ user["customized"].mtime = SysTime
    /\ user["default"] = SysFile("default")

\* a quality name is found by get_xml_profile_attr or listed by
\* get_xml_profile_qualities
Found(files, name) ==
    \/ get_xml_profile_attr(files, name, "preset_name").outcome = "ok"
    \/ \E locale \in Locales :
          LET q == get_xml_profile_qualities(files, locale)
          IN  /\ q.outcome = "ok"
              /\ \E i \in 1..Len(q.value) :
                    \E j \in 1..Len(q.value[i].value) : q.value[i].value[j] = name

SystemNames == ItemNames(SysDefaultRoot) \cup ItemNames(SysCustomRoot)

\* C10 as stated: restore_default_profiles puts the system copy in place of
\* the customised file and leaves the default file as it is; afterwards a
\* preset added earlier is found only if the system files define its name.
C10_RestoreSystemNames ==
    [][ret'.op = "restore" =>
          /\ user'["customized"] = SysFile("customized")
          /\ user'["default"] = user["default"]
          /\ \A name \in added : Found(user', name) => name \in SystemNames]_vars

\* C10 amended: ... afterwards a preset added earlier is found only if the
\* user's default file or the system copy of the customised file defines
\* its name.
C10_Restore ==
    [][ret'.op = "restore" =>
          /\ user'["customized"] = SysFile("customized")
          /\ user'["default"] = user["default"]
          /\ \A name \in added :
                Found(user', name) =>
                    name \in ItemNames(user["default"].root)
                             \cup ItemNames(SysCustomRoot)]_vars

C10_Witness ==
    /\ ret.op = "restore"
    /\ t_q \in added
    /\ ~Found(user, t_q)
    /\ user["default"].kind = "xml"

----------------------------------------------------------------------------
(* Claims about TargetQualityDelegate.update *)

\* C11: update refreshes the progress cell of the row while the row has its
\* old status, then sets the status of that row, and of no other row, to
\* STATUS.todo, then sets total_duration to the duration of the media list,
\* then refreshes the interface.
C11_UpdateOrder ==
    [][/\ gui.pc = "idle" /\ gui'.pc # "idle" =>
              /\ gui'.pc = "set_file_status"
              /\ gui'.media_list = gui.media_list
              /\ gui'.old = gui.media_list[gui'.row].status
              /\ \A r \in 1..Len(gui.progress) :
                    gui'.progress[r] =
                        IF r = gui'.row /\ gui'.old \in {"done", "stopped"}
                        THEN "To convert" ELSE gui.progress[r]
       /\ gui.pc = "set_file_status" =>
              /\ gui'.pc = "total_duration"
              /\ gui'.media_list[gui.row].status = "todo"
              /\ Len(gui'.media_list) = Len(gui.media_list)
              /\ \A r \in 1..Len(gui.media_list) :
                    /\ r # gui.row =>
                          gui'.media_list[r].status = gui.media_list[r].status
                    /\ gui'.media_list[r].duration = gui.media_list[r].duration
              /\ gui'.progress = gui.progress
              /\ gui'.total_duration = gui.total_duration
       /\ gui.pc = "total_duration" =>
              /\ gui'.pc = "update_interface"
              /\ gui'.media_list = gui.media_list
              /\ gui'.total_duration = duration(gui.media_list)
              /\ gui'.shown = gui.shown
       /\ gui.pc = "update_interface" =>
              /\ gui'.pc = "idle"
              /\ gui'.media_list = gui.media_list
              /\ gui'.shown = gui.total_duration]_vars

C11_Witness ==
    /\ ret.op = "update_interface"
    /\ gui.row = 2
    /\ gui.old = "done"
    /\ gui.media_list[2].status = "todo"
    /\ gui.media_list[1].status = "stopped"
    /\ gui.progress = <<"stopped", "To convert">>
    /\ gui.shown = gui.media_list[2].duration

----------------------------------------------------------------------------
(* Claims about the profile elements of the customised file *)

TagsOf(root) == {root[i].tag : i \in 1..Len(root)}

DistinctTags(root) ==
    \A i, j \in 1..Len(root) : i # j => root[i].tag # root[j].tag

\* the customised file after the call holds the tree before the call with
\* the preset put first in the element of the tag, or, when no element has
\* the tag, with one new element that holds the preset put first in the root
InsertedUnder(old, new, tag, name, params, extension) ==
    IF tag \in TagsOf(old)
    THEN /\ Len(new) = Len(old)
         /\ \A i \in 1..Len(old) :
               /\ new[i].tag = old[i].tag
               /\ new[i].items =
                     IF old[i].tag = tag
                     THEN <<Preset(new[i].items[1].tag, name, params,
                                   extension, name)>> \o old[i].items
                     ELSE old[i].items
    ELSE /\ Len(new) = Len(old) + 1
         /\ new[1].tag = tag
         /\ Len(new[1].items) = 1
         /\ new[1].items[1] =
               Preset(new[1].items[1].tag, name, params, extension, name)
         /\ \A i \in 1..Len(old) : new[i + 1] = old[i]

\* C12: from a customised file with pairwise distinct tags, a successful
\* add_xml_profile leaves a customised file with pairwise distinct tags, in
\* which the preset is the first child of the existing element of the
\* upper-cased name or of one new element put first in the root.
C12_DistinctTags ==
    [][(/\ ret'.op = "add" /\ ret'.outcome = "ok"
        /\ Parses(user["customized"])
        /\ DistinctTags(user["customized"].root)) =>
          /\ Parses(user'["customized"])
          /\ DistinctTags(user'["customized"].root)
          /\ InsertedUnder(user["customized"].root, user'["customized"].root,
                           Upper(ret'.profile_name), ret'.preset, ret'.params,
                           Lower(ret'.extension))]_vars

\* C12, over the trees the parser accepts when written
C12_DistinctTags_WellFormed ==
    [][(/\ ret'.op = "add" /\ ret'.outcome = "ok"
        /\ Parses(user["customized"])
        /\ DistinctTags(user["customized"].root)
        /\ IsXmlName(JoinFindall(ret'.preset))) =>
          /\ Parses(user'["customized"])
          /\ DistinctTags(user'["customized"].root)
          /\ InsertedUnder(user["customized"].root, user'["customized"].root,
                           Upper(ret'.profile_name), ret'.preset, ret'.params,
                           Lower(ret'.extension))]_vars

----------------------------------------------------------------------------
(* Claims about the quality names the store returns *)

\* the quality names of a result of get_xml_profile_qualities
QualityNames(d) ==
    UNION {{d[i].value[j] : j \in 1..Len(d[i].value)} : i \in 1..Len(d)}

\* C13: in every state of a constructed store, every quality name that
\* get_xml_profile_qualities returns, for es_ES and for another locale, is
\* found by get_xml_profile_attr for each of the four attribute names.
C13_QualitiesAccepted ==
    constructed =>
        \A locale \in Locales :
            LET q == get_xml_profile_qualities(user, locale)
            IN  q.outcome = "ok" =>
                    \A name \in QualityNames(q.value), attr_name \in AttrNames :
                        /\ get_xml_profile_attr(q.files, name, attr_name).outcome = "ok"
                        /\ get_xml_profile_attr(user, name, attr_name).outcome = "ok"

C13_Witness ==
    /\ constructed
    /\ ret.op = "restore"
    /\ adds > 0
    /\ LET q == get_xml_profile_qualities(user, "es_ES")
       IN  /\ q.outcome = "ok"
           /\ {t_e1, t_e2} \subseteq QualityNames(q.value)

====
